---------------------------- MODULE Spec2Model ----------------------------
(***************************************************************************)
(* Model of the Reddit persona analyzer server (server.js, held in        *)
(* src/unnamed/part_000): the persona inference engine generatePersona,    *)
(* the report renderer formatPersonaAsText, and the two HTTP handlers.     *)
(*                                                                         *)
(* JavaScript strings are sequences of one-character strings, so that      *)
(* substring search, case folding, truncation and the username pattern     *)
(* are computed as the code computes them.  An optional field of a raw     *)
(* item is <<>> when absent (undefined) and <<v>> when present.            *)
(* Array.prototype.filter is SelectSeq.                                    *)
(***************************************************************************)
EXTENDS Integers, Sequences, FiniteSets, TLC

(***************************************************************************)
(* String literals of the source.                                          *)
(***************************************************************************)
S_help == <<"h","e","l","p">>
S_advice == <<"a","d","v","i","c","e">>
S_suggestion == <<"s","u","g","g","e","s","t","i","o","n">>
S_recommend == <<"r","e","c","o","m","m","e","n","d">>
S_try_this == <<"t","r","y"," ","t","h","i","s">>
S_solution == <<"s","o","l","u","t","i","o","n">>
S_code == <<"c","o","d","e">>
S_programming == <<"p","r","o","g","r","a","m","m","i","n","g">>
S_software == <<"s","o","f","t","w","a","r","e">>
S_tech == <<"t","e","c","h">>
S_development == <<"d","e","v","e","l","o","p","m","e","n","t">>
S_algorithm == <<"a","l","g","o","r","i","t","h","m">>
S_art == <<"a","r","t">>
S_music == <<"m","u","s","i","c">>
S_writing == <<"w","r","i","t","i","n","g">>
S_photography == <<"p","h","o","t","o","g","r","a","p","h","y">>
S_design == <<"d","e","s","i","g","n">>
S_creative == <<"c","r","e","a","t","i","v","e">>
S_ellipsis == <<".",".",".">>
S_undefined == <<"u","n","d","e","f","i","n","e","d">>

helpfulKeywords ==
    <<S_help, S_advice, S_suggestion, S_recommend, S_try_this, S_solution>>

techKeywords ==
    <<S_code, S_programming, S_software, S_tech, S_development, S_algorithm>>

creativeSubreddits ==
    <<S_art, S_music, S_writing, S_photography, S_design, S_creative>>

(***************************************************************************)
(* Names that every object literal inherits from Object.prototype: a read  *)
(* of subredditCounts[key] for one of them yields a function, not          *)
(* undefined.                                                              *)
(***************************************************************************)
S_constructor == <<"c","o","n","s","t","r","u","c","t","o","r">>
S_toString == <<"t","o","S","t","r","i","n","g">>
S_valueOf == <<"v","a","l","u","e","O","f">>
S_hasOwnProperty == <<"h","a","s","O","w","n","P","r","o","p","e","r","t","y">>
S_isPrototypeOf == <<"i","s","P","r","o","t","o","t","y","p","e","O","f">>
S_toLocaleString == <<"t","o","L","o","c","a","l","e","S","t","r","i","n","g">>

ObjectPrototypeKeys ==
    {S_constructor, S_toString, S_valueOf, S_hasOwnProperty, S_isPrototypeOf,
     S_toLocaleString}

(***************************************************************************)
(* String primitives of JavaScript used by the source.                     *)
(***************************************************************************)
UpperCase == <<"A","B","C","D","E","F","G","H","I","J","K","L","M","N","O","P","Q","R","S","T","U","V","W","X","Y","Z">>
LowerCase == <<"a","b","c","d","e","f","g","h","i","j","k","l","m","n","o","p","q","r","s","t","u","v","w","x","y","z">>
Digits == <<"0","1","2","3","4","5","6","7","8","9">>

\* String.prototype.toLowerCase, one character.
toLowerCaseChar(c) ==
    IF \E i \in 1..Len(UpperCase) : UpperCase[i] = c
    THEN LowerCase[CHOOSE i \in 1..Len(UpperCase) : UpperCase[i] = c]
    ELSE c

\* String.prototype.toLowerCase.
toLowerCase(s) == [i \in 1..Len(s) |-> toLowerCaseChar(s[i])]

\* Whether k occurs in s at position i (1-based).
occursAt(s, k, i) ==
    /\ i + Len(k) - 1 <= Len(s)
    /\ \A j \in 1..Len(k) : s[i + j - 1] = k[j]

\* String.prototype.includes.
includes(s, k) == \E i \in 1..(Len(s) - Len(k) + 1) : occursAt(s, k, i)

\* String.prototype.substring(0, n).
substring0(s, n) == IF Len(s) <= n THEN s ELSE SubSeq(s, 1, n)

\* Array.prototype.slice(0, n).
slice0(a, n) == IF Len(a) <= n THEN a ELSE SubSeq(a, 1, n)

\* Math.min.
min(a, b) == IF a <= b THEN a ELSE b

\* A run of n filler characters: the tail of a long title or body.
Pad(n) == [i \in 1..n |-> "x"]

(***************************************************************************)
(* Raw items, as fetchRedditData hands them over: every field optional.    *)
(***************************************************************************)
None == <<>>
Some(v) == <<v>>

S_NeedHelp == <<"N","e","e","d"," ","H","e","l","p">>
S_hi == <<"h","i">>
S_DigitalArt == <<"D","i","g","i","t","a","l","A","r","t">>
S_n196 == <<"1","9","6">>
S_news == <<"n","e","w","s">>
S_kojied == <<"k","o","j","i","e","d">>
S_adviceOnCode == <<"A","d","v","i","c","e"," ","o","n"," ","c","o","d","e">>

\* comments.SelectSeq(comment => (comment.body || '').length > 200): the limit.
LongCommentLength == 200

\* Texts of the item pool: one well above the limit, one exactly on it.
LongText == S_adviceOnCode \o Pad(LongCommentLength + 50 - Len(S_adviceOnCode))
EdgeText == S_code \o Pad(LongCommentLength - Len(S_code))

Post_help ==
    [title |-> Some(S_NeedHelp), body |-> None,
     subreddit |-> Some(S_news), score |-> Some(5)]
Post_code ==
    [title |-> Some(<<>>), body |-> Some(LongText),
     subreddit |-> Some(S_n196), score |-> None]
Post_ctor ==
    [title |-> Some(S_hi), body |-> None,
     subreddit |-> Some(S_constructor), score |-> Some(-2)]
Post_noSubreddit ==
    [title |-> Some(S_hi), body |-> None,
     subreddit |-> None, score |-> Some(1)]
Comment_long ==
    [title |-> None, body |-> Some(LongText),
     subreddit |-> Some(S_DigitalArt), score |-> Some(2)]
Comment_edge ==
    [title |-> None, body |-> Some(EdgeText),
     subreddit |-> Some(S_news), score |-> Some(-1)]
Comment_noSubreddit ==
    [title |-> None, body |-> Some(S_code),
     subreddit |-> None, score |-> None]

PostPool == {Post_help, Post_code, Post_ctor, Post_noSubreddit}

CommentPool == {Comment_long, Comment_edge}

\* Bounds on the input of one analysis.
MaxPosts == 2
MaxComments == 6


(***************************************************************************)
(* generatePersona: the pieces, in the order of the source.                *)
(***************************************************************************)
\* A JavaScript string or undefined is truthy iff it is a non-empty string.
truthy(opt) == opt # None /\ opt[1] # <<>>

\* (item.title || item.body || '')
titleOrBody(item) ==
    IF truthy(item.title) THEN item.title[1]
    ELSE IF truthy(item.body) THEN item.body[1]
    ELSE <<>>

\* (comment.body || '')
bodyOrEmpty(item) == IF truthy(item.body) THEN item.body[1] ELSE <<>>

\* (item.score || 0)
scoreOrZero(item) == IF item.score = None THEN 0 ELSE item.score[1]

\* keywords.some(keyword => text.toLowerCase().includes(keyword))
someIncludes(keywords, text) ==
    \E k \in 1..Len(keywords) : includes(toLowerCase(text), keywords[k])

\* The texts and origins the pools hold; the keyword tests are tabulated
\* over them once, by the operators above.
TextPool == {titleOrBody(it) : it \in PostPool \cup CommentPool \cup {Comment_noSubreddit}}
OriginPool == {it.subreddit[1] : it \in {x \in PostPool \cup CommentPool : x.subreddit # None}}
helpfulTable == [t \in TextPool |-> someIncludes(helpfulKeywords, t)]
techTable == [t \in TextPool |-> someIncludes(techKeywords, t)]
creativeTable == [o \in OriginPool |-> someIncludes(creativeSubreddits, o)]

isHelpful(item) == helpfulTable[titleOrBody(item)]
isTech(item) == techTable[titleOrBody(item)]
isCreative(item) == creativeTable[item.subreddit[1]]
isLongComment(comment) == Len(bodyOrEmpty(comment)) > LongCommentLength

\* item.subreddit.toLowerCase() on an item without subreddit is a TypeError:
\* the creative filter reaches every item of a non-empty allContent.
throwsTypeError(allContent) ==
    \E i \in 1..Len(allContent) : allContent[i].subreddit = None

\* The property key an item's subreddit is converted to.
propertyKey(item) ==
    IF item.subreddit = None THEN S_undefined ELSE item.subreddit[1]

\* subredditCounts[key] = (subredditCounts[key] || 0) + 1 on an object
\* literal, kept as its own properties in insertion order.  A count is the
\* number n when isNumber; for a key inherited from Object.prototype the read
\* yields a function, + 1 concatenates, and the value is from then on a
\* string: the function's source text followed by n characters "1".
increment(obj, key) ==
    IF \E i \in 1..Len(obj) : obj[i].key = key
    THEN LET i == CHOOSE j \in 1..Len(obj) : obj[j].key = key
         IN  [obj EXCEPT ![i].n = @ + 1]
    ELSE Append(obj, [key |-> key, n |-> 1,
                      isNumber |-> key \notin ObjectPrototypeKeys])

RECURSIVE subredditCounts(_)
subredditCounts(allContent) ==
    IF allContent = <<>> THEN <<>>
    ELSE increment(subredditCounts(SubSeq(allContent, 1, Len(allContent) - 1)),
                   propertyKey(allContent[Len(allContent)]))

\* A canonical array index: digits only, no leading zero, below 2^32 - 1.
\* Keys of up to 9 digits are all below that limit; longer keys are beyond
\* the integers of TLC and are not drawn.
RECURSIVE toNumber(_)
toNumber(key) ==
    IF key = <<>> THEN 0
    ELSE 10 * toNumber(SubSeq(key, 1, Len(key) - 1))
         + (CHOOSE d \in 0..9 : Digits[d + 1] = key[Len(key)])

isArrayIndex(key) ==
    /\ Len(key) > 0
    /\ Len(key) <= 9
    /\ \A i \in 1..Len(key) : \E d \in 1..10 : Digits[d] = key[i]
    /\ (Len(key) = 1 \/ key[1] # "0")

isIndexEntry(e) == isArrayIndex(e.key)
isNamedEntry(e) == ~isArrayIndex(e.key)
indexOrder(a, b) == toNumber(a.key) < toNumber(b.key)

\* Object.entries: array-index keys in ascending numeric order, then the
\* other keys in insertion order.
ObjectEntries(obj) ==
    SortSeq(SelectSeq(obj, isIndexEntry), indexOrder) \o SelectSeq(obj, isNamedEntry)

\* ([,a], [,b]) => b - a; a NaN result counts as +0.
compareCounts(a, b) == IF a.isNumber /\ b.isNumber THEN b.n - a.n ELSE 0

\* Array.prototype.sort is stable: an entry goes before the first entry
\* that the comparator puts strictly after it.
insertSorted(sorted, e) ==
    IF \E i \in 1..Len(sorted) : compareCounts(sorted[i], e) > 0
    THEN LET i == CHOOSE j \in 1..Len(sorted) :
                    /\ compareCounts(sorted[j], e) > 0
                    /\ \A k \in 1..(j - 1) : compareCounts(sorted[k], e) <= 0
         IN  SubSeq(sorted, 1, i - 1) \o <<e>> \o SubSeq(sorted, i, Len(sorted))
    ELSE Append(sorted, e)

RECURSIVE sortStable(_)
sortStable(entries) ==
    IF entries = <<>> THEN <<>>
    ELSE insertSorted(sortStable(SubSeq(entries, 1, Len(entries) - 1)),
                      entries[Len(entries)])

\* The comparator is a consistent one unless a count that is not a number
\* meets two different numeric counts; with an inconsistent comparator the
\* order sort leaves is implementation-defined.
consistentComparator(entries) ==
    \/ \A i \in 1..Len(entries) : entries[i].isNumber
    \/ \A i, j \in 1..Len(entries) :
          entries[i].isNumber /\ entries[j].isNumber => entries[i].n = entries[j].n

permutationsOf(entries) ==
    {[i \in 1..Len(entries) |-> entries[f[i]]] :
        f \in {g \in [1..Len(entries) -> 1..Len(entries)] :
                 \A a, b \in 1..Len(entries) : a # b => g[a] # g[b]}}

sortOutcomes(entries) ==
    IF consistentComparator(entries) THEN {sortStable(entries)}
    ELSE permutationsOf(entries)

(***************************************************************************)
(* The trait rules: thresholds, multipliers and snippet lengths.           *)
(***************************************************************************)
HelpfulThreshold == 3
TechThreshold == 2
CreativeThreshold == 1
ThoughtfulThreshold == 5
HelpfulMultiplier == 10
TechMultiplier == 15
CreativeMultiplier == 20
ThoughtfulMultiplier == 8
MaxConfidence == 100
EvidenceCount == 2
SnippetLength == 100
ThoughtfulSnippetLength == 150
TopSubreddits == 5
SummarySubreddits == 3

\* A rule written with >= in place of >.
exceedsOrEquals(n, threshold) == n >= threshold

\* content.length > threshold
exceeds(n, threshold) == n > threshold

\* The confidence without its Math.min.
confidenceUnclamped(n, multiplier) == n * multiplier

\* Math.min(content.length * multiplier, 100)
confidenceOf(n, multiplier) == min(n * multiplier, MaxConfidence)

\* The snippet without its substring(0, length).
snippetUncut(text, length) == text \o S_ellipsis

\* text.substring(0, length) + '...'
snippet(text, length) == substring0(text, length) \o S_ellipsis

\* The evidence entry of lines 89-93, 109-113 and 127-131.
evidenceOf(item) ==
    [type |-> IF truthy(item.title) THEN "post" ELSE "comment",
     content |-> snippet(titleOrBody(item), SnippetLength),
     subreddit |-> item.subreddit]

\* The evidence entry of lines 145-149.
thoughtfulEvidenceOf(item) ==
    [type |-> "comment",
     content |-> snippet(bodyOrEmpty(item), ThoughtfulSnippetLength),
     subreddit |-> item.subreddit]

\* The evidence taken from the last 2 qualifying items.
evidenceListOfLast(content) ==
    [i \in 1..Len(slice0(content, EvidenceCount)) |->
        evidenceOf(content[Len(content) - Len(slice0(content, EvidenceCount)) + i])]

\* content.slice(0, 2).map(...)
evidenceList(content) ==
    [i \in 1..Len(slice0(content, EvidenceCount)) |-> evidenceOf(content[i])]

thoughtfulEvidenceList(content) ==
    [i \in 1..Len(slice0(content, EvidenceCount)) |-> thoughtfulEvidenceOf(content[i])]

helpfulContent(allContent) == SelectSeq(allContent, isHelpful)
techContent(allContent) == SelectSeq(allContent, isTech)
creativeContent(allContent) == SelectSeq(allContent, isCreative)
longComments(cs) == SelectSeq(cs, isLongComment)

\* Each rule pushes one trait or none.
helpfulTrait(allContent) ==
    IF exceeds(Len(helpfulContent(allContent)), HelpfulThreshold)
    THEN << [trait |-> "Helpful and Supportive",
             evidence |-> evidenceList(helpfulContent(allContent)),
             confidence |-> confidenceOf(Len(helpfulContent(allContent)),
                                         HelpfulMultiplier)] >>
    ELSE <<>>

techTrait(allContent) ==
    IF exceeds(Len(techContent(allContent)), TechThreshold)
    THEN << [trait |-> "Technology Enthusiast",
             evidence |-> evidenceList(techContent(allContent)),
             confidence |-> confidenceOf(Len(techContent(allContent)),
                                         TechMultiplier)] >>
    ELSE <<>>

creativeTrait(allContent) ==
    IF exceeds(Len(creativeContent(allContent)), CreativeThreshold)
    THEN << [trait |-> "Creative and Artistic",
             evidence |-> evidenceList(creativeContent(allContent)),
             confidence |-> confidenceOf(Len(creativeContent(allContent)),
                                         CreativeMultiplier)] >>
    ELSE <<>>

thoughtfulTrait(cs) ==
    IF exceeds(Len(longComments(cs)), ThoughtfulThreshold)
    THEN << [trait |-> "Thoughtful Communicator",
             evidence |-> thoughtfulEvidenceList(longComments(cs)),
             confidence |-> confidenceOf(Len(longComments(cs)),
                                         ThoughtfulMultiplier)] >>
    ELSE <<>>

\* The traits with the last rule's push first.
traitsThoughtfulFirst(ps, cs) ==
    thoughtfulTrait(cs) \o helpfulTrait(ps \o cs) \o techTrait(ps \o cs)
        \o creativeTrait(ps \o cs)

\* traits, in the order of the pushes.
traitsOf(ps, cs) ==
    helpfulTrait(ps \o cs) \o techTrait(ps \o cs)
        \o creativeTrait(ps \o cs) \o thoughtfulTrait(cs)

\* allContent.reduce((sum, item) => sum + (item.score || 0), 0)
RECURSIVE totalScore(_)
totalScore(allContent) ==
    IF allContent = <<>> THEN 0
    ELSE totalScore(SubSeq(allContent, 1, Len(allContent) - 1))
         + scoreOrZero(allContent[Len(allContent)])

\* Math.floor in place of Math.round.
floorRatio(num, den) == num \div den

\* Math.round(x) for the rational x = num / den, den > 0: floor(x + 1/2).
roundRatio(num, den) == (2 * num + den) \div (2 * den)

\* Math.round(avgScore * 100) / 100 with avgScore = totalScore / length,
\* kept in hundredths: the integer Math.round yields, before the division
\* by 100.  The model computes the quotient exactly.
avgScoreHundredths(allContent) ==
    roundRatio(100 * totalScore(allContent), Len(allContent))

\* Array.prototype.join.
RECURSIVE join(_, _)
join(strs, sep) ==
    IF strs = <<>> THEN <<>>
    ELSE IF Len(strs) = 1 THEN strs[1]
    ELSE join(SubSeq(strs, 1, Len(strs) - 1), sep) \o sep \o strs[Len(strs)]

keysOf(entries) == [i \in 1..Len(entries) |-> entries[i].key]

\* The template of line 156, its interpolated values in place.
summaryOf(ps, cs, topSubreddits) ==
    <<"Active Reddit user with ", Len(ps), " posts and ", Len(cs),
      " comments. Primary interests include ",
      join(keysOf(slice0(topSubreddits, SummarySubreddits)), <<",", " ">>), ".">>

emptySummary == <<"No public posts or comments found for analysis.">>

\* The return value of lines 52-61: it carries no interests field.
emptyPersona(username) ==
    [username |-> username,
     summary |-> emptySummary,
     traits |-> <<>>,
     engagement |-> [totalPosts |-> 0, totalComments |-> 0, avgScore |-> 0]]

\* topSubreddits.map(([subreddit, count]) => ({ subreddit, count }))
interestsOf(topSubreddits) ==
    [i \in 1..Len(topSubreddits) |->
        [subreddit |-> topSubreddits[i].key,
         count |-> topSubreddits[i].n,
         countIsNumber |-> topSubreddits[i].isNumber]]

hasTitle(item) == truthy(item.title)
hasNoTitle(item) == ~truthy(item.title)

\* The counters re-derived from the items' kind (a title makes a post).
engagementByKind(ps, cs, topSubreddits) ==
    [totalPosts |-> Len(SelectSeq(ps \o cs, hasTitle)),
     totalComments |-> Len(SelectSeq(ps \o cs, hasNoTitle)),
     avgScore |-> avgScoreHundredths(ps \o cs),
     mostActiveSubreddits |-> slice0(topSubreddits, SummarySubreddits)]

\* The engagement record of lines 159-164.
engagementOf(ps, cs, topSubreddits) ==
    [totalPosts |-> Len(ps),
     totalComments |-> Len(cs),
     avgScore |-> avgScoreHundredths(ps \o cs),
     mostActiveSubreddits |-> slice0(topSubreddits, SummarySubreddits)]

\* The return value of lines 154-165, for one outcome of the sort.
assemble(username, ps, cs, sorted) ==
    LET topSubreddits == slice0(sorted, TopSubreddits)
    IN  [username |-> username,
         summary |-> summaryOf(ps, cs, topSubreddits),
         interests |-> interestsOf(topSubreddits),
         traits |-> traitsOf(ps, cs),
         engagement |-> engagementOf(ps, cs, topSubreddits)]

\* The values generatePersona(username, {posts, comments}) can return; the
\* empty set when it throws.
generatePersona(username, ps, cs) ==
    IF Len(ps \o cs) = 0 THEN {emptyPersona(username)}
    ELSE IF throwsTypeError(ps \o cs) THEN {}
    ELSE {assemble(username, ps, cs, sorted) :
            sorted \in sortOutcomes(ObjectEntries(subredditCounts(ps \o cs)))}

(***************************************************************************)
(* extractUsername: url.match(/reddit\.com\/(?:u|user)\/([^\/\?#]+)/i).    *)
(***************************************************************************)
S_reddit_com == <<"r","e","d","d","i","t",".","c","o","m","/">>
S_u_slash == <<"u","/">>
S_user_slash == <<"u","s","e","r","/">>

\* [^\/\?#]
isNameChar(c) == c \notin {"/", "?", "#"}

\* Where the capture group starts when reddit.com/ then u/ or user/ match,
\* case-insensitively, at position i of url; 0 when they do not.
nameStartAt(url, i) ==
    IF ~occursAt(toLowerCase(url), S_reddit_com, i) THEN 0
    ELSE IF occursAt(toLowerCase(url), S_u_slash, i + Len(S_reddit_com))
         THEN i + Len(S_reddit_com) + Len(S_u_slash)
    ELSE IF occursAt(toLowerCase(url), S_user_slash, i + Len(S_reddit_com))
         THEN i + Len(S_reddit_com) + Len(S_user_slash)
    ELSE 0

\* The pattern matches at i: the group takes at least one character.
matchesAt(url, i) ==
    /\ nameStartAt(url, i) > 0
    /\ nameStartAt(url, i) <= Len(url)
    /\ isNameChar(url[nameStartAt(url, i)])

\* The group is greedy: it ends before the first of / ? # or at the end.
nameEndFrom(url, start) ==
    IF \E j \in start..Len(url) : ~isNameChar(url[j])
    THEN (CHOOSE j \in start..Len(url) :
             /\ ~isNameChar(url[j])
             /\ \A k \in start..(j - 1) : isNameChar(url[k])) - 1
    ELSE Len(url)

\* match ? match[1] : null, for a string url: the leftmost match.
extractUsername(url) ==
    IF \E i \in 1..Len(url) : matchesAt(url, i)
    THEN LET i == CHOOSE j \in 1..Len(url) :
                    /\ matchesAt(url, j)
                    /\ \A k \in 1..(j - 1) : ~matchesAt(url, k)
         IN  Some(SubSeq(url, nameStartAt(url, i),
                         nameEndFrom(url, nameStartAt(url, i))))
    ELSE None

(***************************************************************************)
(* formatPersonaAsText: the text as its lines, each line the literal       *)
(* pieces and interpolated values of its template.  date is the instant    *)
(* new Date() reads, which toISOString prints to the millisecond.          *)
(***************************************************************************)
RECURSIVE flatten(_)
flatten(seqs) ==
    IF seqs = <<>> THEN <<>>
    ELSE flatten(SubSeq(seqs, 1, Len(seqs) - 1)) \o seqs[Len(seqs)]

blankLine == <<"">>

interestLines(interests) ==
    [i \in 1..Len(interests) |->
        <<i, ". r/", interests[i].subreddit, " (",
          interests[i].count, interests[i].countIsNumber, " posts/comments)">>]

evidenceLines(evidence) ==
    [j \in 1..Len(evidence) |->
        <<"   - [", evidence[j].type, " in r/", evidence[j].subreddit, "] ",
          evidence[j].content>>]

traitLines(traits) ==
    flatten([i \in 1..Len(traits) |->
        << <<i, ". ", traits[i].trait, " (", traits[i].confidence, "% confidence)">>,
           <<"   Evidence:">> >>
        \o evidenceLines(traits[i].evidence)
        \o <<blankLine>>])

prefixed(entries) == [i \in 1..Len(entries) |-> <<"r", "/">> \o entries[i].key]

formatPersonaAsText(p, date) ==
    << <<"REDDIT USER PERSONA ANALYSIS">>,
       <<"==================================================">>,
       blankLine,
       <<"Username: u/", p.username>>,
       <<"Generated: ", date>>,
       blankLine,
       <<"SUMMARY">>,
       <<"--------------------">>,
       p.summary,
       blankLine >>
    \o (IF "interests" \in DOMAIN p /\ Len(p.interests) > 0
        THEN << <<"TOP INTERESTS (by activity)">>,
                <<"------------------------------">> >>
             \o interestLines(p.interests) \o <<blankLine>>
        ELSE <<>>)
    \o (IF Len(p.traits) > 0
        THEN << <<"PERSONALITY TRAITS">>,
                <<"-------------------------">> >>
             \o traitLines(p.traits)
        ELSE <<>>)
    \o << <<"ENGAGEMENT STATISTICS">>,
          <<"------------------------------">>,
          <<"Total Posts: ", p.engagement.totalPosts>>,
          <<"Total Comments: ", p.engagement.totalComments>>,
          <<"Average Score: ", p.engagement.avgScore>> >>
    \o (IF "mostActiveSubreddits" \in DOMAIN p.engagement
        THEN << <<"Most Active Subreddits: ",
                  join(prefixed(p.engagement.mostActiveSubreddits), <<",", " ">>)>> >>
        ELSE <<>>)
    \o << blankLine,
          <<"--------------------------------------------------">>,
          <<"Analysis generated by Reddit Persona Analyzer">> >>

\* `persona_${username}_${Date.now()}.txt`
filenameOf(username, date) == <<"persona_", username, "_", date, ".txt">>

(***************************************************************************)
(* The requests the server is sent and the answers of its collaborators.   *)
(***************************************************************************)
S_url_kojied == <<"h","t","t","p","s",":","/","/","w","w","w",".","R","e","d","d","i","t",".","c","o","m","/","u","s","e","r","/","k","o","j","i","e","d","/">>
S_url_ab == <<"r","e","d","d","i","t",".","c","o","m","/","u","/","a","b","?","x","=","1">>
S_url_subreddit == <<"r","e","d","d","i","t",".","c","o","m","/","r","/","n","e","w","s">>
S_url_noName == <<"r","e","d","d","i","t",".","c","o","m","/","u","/","?","x">>
S_n42 == <<"4","2">>

\* req.body.redditUrl: whatever JSON value the client sent, or nothing.
RedditUrlPool ==
    { [type |-> "undefined", value |-> <<>>],
      [type |-> "string", value |-> <<>>],
      [type |-> "string", value |-> S_url_subreddit],
      [type |-> "string", value |-> S_url_noName],
      [type |-> "string", value |-> S_url_kojied],
      [type |-> "string", value |-> S_url_ab],
      [type |-> "number", value |-> S_n42] }

\* extractUsername over the strings of the pool, tabulated once.
StringUrls == {u.value : u \in {v \in RedditUrlPool : v.type = "string"}}
usernameTable == [url \in StringUrls |-> extractUsername(url)]

\* !redditUrl
falsy(v) == v.type = "undefined" \/ (v.type = "string" /\ v.value = <<>>)

\* The accounts Reddit has: for any other name every axios.get is rejected.
ExistingUsers == {S_kojied}

\* What the two axios.get calls can resolve to, and the causes they can be
\* rejected with.
PostsResponses == {<<>>, <<Post_help>>}
CommentsResponses == {<<>>, <<Comment_noSubreddit>>}
FetchErrors == {"Request failed with status code 404", "Network Error"}

\* The wrapped message without the cause.
fetchErrorWithoutCause(cause) == <<"Failed to fetch Reddit data">>

\* new Error(`Failed to fetch Reddit data: ${error.message}`)
fetchErrorMessage(cause) == <<"Failed to fetch Reddit data: ", cause>>
MkdirErrors == {"EACCES: permission denied, mkdir"}
WriteErrors == {"ENOSPC: no space left on device"}
FsErrors == MkdirErrors \cup WriteErrors

\* The causes fs.readFile can be rejected with: the file is not there, or
\* it is there and the read fails.
S_ENOENT == "ENOENT: no such file or directory"
ReadErrors == {"EMFILE: too many open files"}

\* Bounds of the server model: concurrent requests, clock ticks.
NumRequests == 2
MaxClock == 1

Requests == 1..NumRequests

VARIABLES
    posts,      \* data.posts of the analysis
    comments,   \* data.comments of the analysis
    pc,         \* "input" while the data is assembled, "done" after the call
    outcome,    \* "none" | "returned" | "threw"
    persona,    \* the value generatePersona returned
    req,        \* per request of POST /api/persona: its locals and its answer
    now,        \* the clock new Date() and Date.now() read, in milliseconds
    files,      \* the directory generated/: file name -> content, as pairs
    download    \* the request of GET /api/download/:filename that is followed

engineVars == <<posts, comments, pc, outcome, persona>>
serverVars == <<req, now, files, download>>
vars == <<engineVars, serverVars>>

noPersona == [username |-> <<>>]

noResponse ==
    [status |-> 0, error |-> <<>>, success |-> FALSE, persona |-> noPersona,
     filename |-> <<>>, downloadUrl |-> <<>>]

\* res.status(code).json({ error: message })
errorResponse(code, message) ==
    [status |-> code, error |-> message, success |-> FALSE,
     persona |-> noPersona, filename |-> <<>>, downloadUrl |-> <<>>]

\* res.json({ success: true, persona, filename, downloadUrl })
successResponse(p, filename) ==
    [status |-> 200, error |-> <<>>, success |-> TRUE, persona |-> p,
     filename |-> filename, downloadUrl |-> <<"/api/download/">> \o filename]

\* A storage failure answered as a success.
storageFailureSwallowed(cause) == successResponse(noPersona, <<>>)

\* Lines 255-258 for a rejected mkdir or writeFile.
storageFailureResponse(cause) == errorResponse(500, <<cause>>)

\* The download that was not requested yet.  of is the analysis request
\* whose success answer named the file, 0 for a name no answer carried.
noDownload ==
    [pc |-> "idle", filename |-> <<>>, of |-> 0, readError |-> None,
     status |-> 0, error |-> <<>>, content |-> None, disposition |-> <<>>]

InitEngine ==
    /\ posts = <<>>
    /\ comments = <<>>
    /\ pc = "input"
    /\ outcome = "none"
    /\ persona = noPersona

InitServer ==
    /\ req = [r \in Requests |->
                [pc |-> "new",
                 redditUrl |-> [type |-> "undefined", value |-> <<>>],
                 username |-> <<>>,
                 posts |-> <<>>,
                 comments |-> <<>>,
                 fetchError |-> None,
                 fsError |-> None,
                 persona |-> noPersona,
                 personaText |-> <<>>,
                 filename |-> <<>>,
                 steps |-> <<>>,
                 response |-> noResponse]]
    /\ now = 0
    /\ files = {}
    /\ download = noDownload

Init == InitEngine /\ InitServer

(***************************************************************************)
(* One analysis: the data is assembled, then generatePersona is called.    *)
(***************************************************************************)
\* The caller's data grows by one post.
AddPost ==
    /\ pc = "input"
    /\ Len(posts) < MaxPosts
    /\ \E item \in PostPool : posts' = Append(posts, item)
    /\ UNCHANGED <<comments, pc, outcome, persona, serverVars>>

\* The caller's data grows by one comment.
AddComment ==
    /\ pc = "input"
    /\ Len(comments) < MaxComments
    /\ \E item \in CommentPool : comments' = Append(comments, item)
    /\ UNCHANGED <<posts, pc, outcome, persona, serverVars>>

\* generatePersona(username, {posts, comments}) returns.
GenerateReturns ==
    /\ pc = "input"
    /\ \E p \in generatePersona(S_kojied, posts, comments) : persona' = p
    /\ outcome' = "returned"
    /\ pc' = "done"
    /\ UNCHANGED <<posts, comments, serverVars>>

\* generatePersona(username, {posts, comments}) throws.
GenerateThrows ==
    /\ pc = "input"
    /\ generatePersona(S_kojied, posts, comments) = {}
    /\ outcome' = "threw"
    /\ pc' = "done"
    /\ UNCHANGED <<posts, comments, persona, serverVars>>

Next == AddPost \/ AddComment \/ GenerateReturns \/ GenerateThrows

Spec == Init /\ [][Next]_vars

(***************************************************************************)
(* POST /api/persona: one action per stretch of the handler between two    *)
(* awaits.  steps records what the handler has done for the request.       *)
(***************************************************************************)
\* Lines 219-232: the request arrives; the reference is checked and, when a
\* username comes out of it, the first axios.get is sent.
Receive(r) ==
    /\ req[r].pc = "new"
    /\ \E url \in RedditUrlPool :
          IF falsy(url)
          THEN req' = [req EXCEPT ![r].pc = "done",
                         ![r].redditUrl = url,
                         ![r].response = errorResponse(400, <<"Reddit URL is required">>),
                         ![r].steps = Append(@, "respond")]
          ELSE IF url.type # "string"
          THEN req' = [req EXCEPT ![r].pc = "done",
                         ![r].redditUrl = url,
                         ![r].response = errorResponse(500, <<"url.match is not a function">>),
                         ![r].steps = Append(@, "respond")]
          ELSE IF usernameTable[url.value] = None
          THEN req' = [req EXCEPT ![r].pc = "done",
                         ![r].redditUrl = url,
                         ![r].response = errorResponse(400, <<"Invalid Reddit user URL">>),
                         ![r].steps = Append(@, "respond")]
          ELSE req' = [req EXCEPT ![r].pc = "fetchPosts",
                         ![r].redditUrl = url,
                         ![r].username = usernameTable[url.value][1],
                         ![r].steps = Append(@, "fetch")]
    /\ UNCHANGED <<now, files, download, engineVars>>

\* Lines 24-31: the posts arrive and the second axios.get is sent.
PostsArrive(r) ==
    /\ req[r].pc = "fetchPosts"
    /\ req[r].username \in ExistingUsers
    /\ \E ps \in PostsResponses :
          req' = [req EXCEPT ![r].pc = "fetchComments", ![r].posts = ps]
    /\ UNCHANGED <<now, files, download, engineVars>>

\* Lines 41-43 and 255-258: an axios.get is rejected; the cause is wrapped
\* and the outer catch answers with the wrapped message.
FetchFails(r) ==
    /\ req[r].pc \in {"fetchPosts", "fetchComments"}
    /\ \E cause \in FetchErrors :
          req' = [req EXCEPT ![r].pc = "done",
                     ![r].fetchError = Some(cause),
                     ![r].response = errorResponse(500, fetchErrorMessage(cause)),
                     ![r].steps = Append(@, "respond")]
    /\ UNCHANGED <<now, files, download, engineVars>>

\* Lines 37-40 and 235-245: the comments arrive; the persona is generated
\* and rendered, the file is named and mkdir is called.
CommentsArrive(r) ==
    /\ req[r].pc = "fetchComments"
    /\ \E cs \in CommentsResponses :
          \E p \in generatePersona(req[r].username, req[r].posts, cs) :
              req' = [req EXCEPT ![r].pc = "mkdir",
                         ![r].comments = cs,
                         ![r].persona = p,
                         ![r].personaText = formatPersonaAsText(p, now),
                         ![r].filename = filenameOf(req[r].username, now),
                         ![r].steps = @ \o <<"analyse", "render">>]
    /\ UNCHANGED <<now, files, download, engineVars>>

\* Lines 235 and 255-258: the comments arrive and generatePersona throws.
CommentsArriveThrows(r) ==
    /\ req[r].pc = "fetchComments"
    /\ \E cs \in CommentsResponses :
          /\ generatePersona(req[r].username, req[r].posts, cs) = {}
          /\ req' = [req EXCEPT ![r].pc = "done",
                        ![r].comments = cs,
                        ![r].response = errorResponse(500,
                            <<"Cannot read properties of undefined (reading 'toLowerCase')">>),
                        ![r].steps = @ \o <<"analyse", "respond">>]
    /\ UNCHANGED <<now, files, download, engineVars>>

\* Lines 245-246: mkdir is done and writeFile is called.
MkdirDone(r) ==
    /\ req[r].pc = "mkdir"
    /\ req' = [req EXCEPT ![r].pc = "writeFile"]
    /\ UNCHANGED <<now, files, download, engineVars>>

\* Lines 245-246 and 255-258: mkdir or writeFile is rejected.
FsFails(r) ==
    /\ req[r].pc \in {"mkdir", "writeFile"}
    /\ \E cause \in (IF req[r].pc = "mkdir" THEN MkdirErrors ELSE WriteErrors) :
          req' = [req EXCEPT ![r].pc = "done",
                     ![r].fsError = Some(cause),
                     ![r].response = storageFailureResponse(cause),
                     ![r].steps = Append(@, "respond")]
    /\ UNCHANGED <<now, files, download, engineVars>>

\* Line 246: writeFile has written the file, replacing one of that name.
WriteDone(r) ==
    /\ req[r].pc = "writeFile"
    /\ files' = {f \in files : f.name # req[r].filename}
                  \cup {[name |-> req[r].filename, content |-> req[r].personaText]}
    /\ req' = [req EXCEPT ![r].pc = "respond", ![r].steps = Append(@, "store")]
    /\ UNCHANGED <<now, download, engineVars>>

\* Lines 248-253: the success answer.
Respond(r) ==
    /\ req[r].pc = "respond"
    /\ req' = [req EXCEPT ![r].pc = "done",
                  ![r].response = successResponse(req[r].persona, req[r].filename),
                  ![r].steps = Append(@, "respond")]
    /\ UNCHANGED <<now, files, download, engineVars>>

\* A millisecond passes.  The clock is read when a request's comments
\* arrive; it is followed while a request has that ahead of it.
Tick ==
    /\ now < MaxClock
    /\ \E r \in Requests : req[r].pc \in {"new", "fetchPosts", "fetchComments"}
    /\ now' = now + 1
    /\ UNCHANGED <<req, files, download, engineVars>>

(***************************************************************************)
(* GET /api/download/:filename: the handler up to its await, then the end  *)
(* of fs.readFile.                                                         *)
(***************************************************************************)
\* A name no analysis writes: its instant is beyond the clock.
missingFilename == filenameOf(S_kojied, MaxClock + 1)

isStored(filename) == \E f \in files : f.name = filename

\* An fs.writeFile of that name is under way.
isBeingWritten(filename) ==
    \E r \in Requests : req[r].pc = "writeFile" /\ req[r].filename = filename

\* What fs.readFile can resolve to.  Beside a writeFile of the same name the
\* read races with the write: it sees the file as it was, the file just
\* truncated, or the new content.
readOutcomes(filename) ==
    {f.content : f \in {g \in files : g.name = filename}}
    \cup (IF isBeingWritten(filename)
          THEN {<<>>} \cup {req[r].personaText :
                               r \in {q \in Requests :
                                         /\ req[q].pc = "writeFile"
                                         /\ req[q].filename = filename}}
          ELSE {})

\* Lines 263-267: a client asks for the file an answer named, or for a name
\* it made up; readFile is called.
DownloadReceive ==
    /\ download.pc = "idle"
    /\ \/ \E r \in Requests :
             /\ req[r].pc = "done"
             /\ req[r].response.success
             /\ download' = [download EXCEPT !.pc = "readFile",
                                 !.filename = req[r].response.filename,
                                 !.of = r]
       \/ download' = [download EXCEPT !.pc = "readFile",
                           !.filename = missingFilename]
    /\ UNCHANGED <<req, now, files, engineVars>>

\* Lines 267-271: readFile resolves; the content is sent as an attachment.
ReadDone ==
    /\ download.pc = "readFile"
    /\ \E fileContent \in readOutcomes(download.filename) :
          download' = [download EXCEPT !.pc = "done",
                          !.status = 200,
                          !.content = Some(fileContent),
                          !.disposition = <<"attachment; filename=\"">>
                                             \o download.filename \o <<"\"">>]
    /\ UNCHANGED <<req, now, files, engineVars>>

\* Lines 267 and 273-275: readFile is rejected; the answer is 404.
ReadFails ==
    /\ download.pc = "readFile"
    /\ \E cause \in ReadErrors \cup {S_ENOENT} :
          /\ cause = S_ENOENT => ~isStored(download.filename)
          /\ download' = [download EXCEPT !.pc = "done",
                              !.readError = Some(cause),
                              !.status = 404,
                              !.error = <<"File not found">>]
    /\ UNCHANGED <<req, now, files, engineVars>>

NextServer ==
    \/ \E r \in Requests :
          \/ Receive(r)
          \/ PostsArrive(r)
          \/ FetchFails(r)
          \/ CommentsArrive(r)
          \/ CommentsArriveThrows(r)
          \/ MkdirDone(r)
          \/ FsFails(r)
          \/ WriteDone(r)
          \/ Respond(r)
    \/ Tick
    \/ DownloadReceive
    \/ ReadDone
    \/ ReadFails

SpecServer == Init /\ [][NextServer]_vars

(***************************************************************************)
(* The claims about generatePersona, over the analysis that was run.       *)
(***************************************************************************)
allContent == posts \o comments

countWhere(items, P(_)) == Cardinality({i \in 1..Len(items) : P(items[i])})

\* The number of input items that qualify for the rule of a trait label.
qualifyingCount(label) ==
    CASE label = "Helpful and Supportive" -> countWhere(allContent, isHelpful)
      [] label = "Technology Enthusiast" -> countWhere(allContent, isTech)
      [] label = "Creative and Artistic" -> countWhere(allContent, isCreative)
      [] label = "Thoughtful Communicator" -> countWhere(comments, isLongComment)

ruleThreshold(label) ==
    CASE label = "Helpful and Supportive" -> 3
      [] label = "Technology Enthusiast" -> 2
      [] label = "Creative and Artistic" -> 1
      [] label = "Thoughtful Communicator" -> 5

ruleSnippetLength(label) ==
    CASE label = "Helpful and Supportive" -> 100
      [] label = "Technology Enthusiast" -> 100
      [] label = "Creative and Artistic" -> 100
      [] label = "Thoughtful Communicator" -> 150

\* C1: every trait detection generatePersona returns belongs to a rule whose
\* number of qualifying input items is strictly greater than the rule's
\* threshold (3, 2, 1, 5), and its confidence is an integer from 0 to 100.
C1_TraitsExceedThreshold ==
    outcome = "returned" =>
        \A i \in 1..Len(persona.traits) :
            /\ persona.traits[i].trait \in
                  {"Helpful and Supportive", "Technology Enthusiast",
                   "Creative and Artistic", "Thoughtful Communicator"}
            /\ qualifyingCount(persona.traits[i].trait)
                  > ruleThreshold(persona.traits[i].trait)
            /\ persona.traits[i].confidence \in 0..100

\* A returned persona with a trait on the boundary (one item more than the
\* threshold) and one whose confidence is clamped to 100.
C1_Witness ==
    /\ outcome = "returned"
    /\ \E i \in 1..Len(persona.traits) :
          qualifyingCount(persona.traits[i].trait)
             = ruleThreshold(persona.traits[i].trait) + 1
    /\ \E i \in 1..Len(persona.traits) : persona.traits[i].confidence = 100

\* C2: for the empty input generatePersona returns the summary "No public
\* posts or comments found for analysis.", traits the empty list, interests
\* the empty list, and engagement with totalPosts 0, totalComments 0 and
\* avgScore 0.
C2_EmptyInputResult ==
    (outcome = "returned" /\ posts = <<>> /\ comments = <<>>) =>
        /\ persona.summary = <<"No public posts or comments found for analysis.">>
        /\ persona.traits = <<>>
        /\ "interests" \in DOMAIN persona
        /\ persona.interests = <<>>
        /\ persona.engagement.totalPosts = 0
        /\ persona.engagement.totalComments = 0
        /\ persona.engagement.avgScore = 0

hasOrigin(item, origin) == item.subreddit = Some(origin)

\* The number of input items whose origin is the given one.
itemsOfOrigin(origin) ==
    Cardinality({i \in 1..Len(allContent) : hasOrigin(allContent[i], origin)})

\* The position of the first input item of the given origin.
firstSeen(origin) ==
    CHOOSE i \in 1..Len(allContent) :
        /\ hasOrigin(allContent[i], origin)
        /\ \A j \in 1..(i - 1) : ~hasOrigin(allContent[j], origin)

\* C3: each interest entry has a count equal to the number of input items
\* whose origin is the entry's origin, and the entries are in non-increasing
\* order of count.
C3_InterestCounts ==
    (outcome = "returned" /\ allContent # <<>>) =>
        /\ \A i \in 1..Len(persona.interests) :
              /\ persona.interests[i].countIsNumber
              /\ persona.interests[i].count
                    = itemsOfOrigin(persona.interests[i].subreddit)
        /\ \A i, j \in 1..Len(persona.interests) :
              i < j => persona.interests[i].count >= persona.interests[j].count

\* C4: among interest entries with equal counts, the entry whose origin was
\* encountered first in the combined item sequence is ranked first, for
\* every origin name, names made only of digits included.
C4_TiesInFirstSeenOrder ==
    (outcome = "returned" /\ allContent # <<>>) =>
        \A i, j \in 1..Len(persona.interests) :
            ( /\ i < j
              /\ persona.interests[i].countIsNumber
              /\ persona.interests[j].countIsNumber
              /\ persona.interests[i].count = persona.interests[j].count )
            => firstSeen(persona.interests[i].subreddit)
                  < firstSeen(persona.interests[j].subreddit)

\* The sum of the input's scores, an absent score counted as 0.
RECURSIVE scoreSum(_)
scoreSum(items) ==
    IF items = <<>> THEN 0
    ELSE (IF Head(items).score = <<>> THEN 0 ELSE Head(items).score[1])
         + scoreSum(Tail(items))

\* h hundredths is num / den rounded to 2 decimals: a nearest hundredth,
\* either neighbour when the quotient lies halfway between two.
isRoundedMean(h, num, den) ==
    /\ 2 * den * h - den <= 200 * num
    /\ 200 * num <= 2 * den * h + den

\* C5 as stated: avgScore is 0 if and only if the input has no items; for a
\* non-empty input it is the sum of the scores divided by the item count,
\* rounded to 2 decimals.
C5_AvgScoreZeroIffEmpty ==
    outcome = "returned" =>
        /\ (persona.engagement.avgScore = 0) <=> (allContent = <<>>)
        /\ allContent # <<>> =>
              isRoundedMean(persona.engagement.avgScore,
                            scoreSum(allContent), Len(allContent))

\* C5 (amended): avgScore is 0 if the input has no items; for a non-empty
\* input it is the sum of the scores (absent counted as 0) divided by the
\* item count, rounded to 2 decimals, which is 0 as well when the mean
\* rounds to 0.
C5_AvgScore ==
    outcome = "returned" =>
        /\ allContent = <<>> => persona.engagement.avgScore = 0
        /\ allContent # <<>> =>
              isRoundedMean(persona.engagement.avgScore,
                            scoreSum(allContent), Len(allContent))

\* A returned persona of a non-empty input whose mean falls exactly on a
\* negative half hundredth, so that the rounding decides the value.
C5_Witness ==
    /\ outcome = "returned"
    /\ allContent # <<>>
    /\ scoreSum(allContent) < 0
    /\ (200 * scoreSum(allContent)) % (2 * Len(allContent)) = Len(allContent)

\* C6: totalPosts is the number of input posts, totalComments the number of
\* input comments, and their sum the number of input items.
C6_EngagementCounts ==
    outcome = "returned" =>
        /\ persona.engagement.totalPosts = Len(posts)
        /\ persona.engagement.totalComments = Len(comments)
        /\ persona.engagement.totalPosts + persona.engagement.totalComments
              = Len(allContent)

\* A returned persona of an input with posts and comments, one of the posts
\* without a title.
C6_Witness ==
    /\ outcome = "returned"
    /\ persona.engagement.totalPosts = 2
    /\ persona.engagement.totalComments > 0
    /\ \E i \in 1..Len(posts) : ~truthy(posts[i].title)

\* C7: each trait detection carries at most 2 evidence entries, and each
\* snippet is no longer than the rule's truncation length (100, or 150 for
\* Thoughtful Communicator) plus the 3 characters of the ellipsis.
C7_EvidenceBounded ==
    outcome = "returned" =>
        \A i \in 1..Len(persona.traits) :
            /\ Len(persona.traits[i].evidence) <= 2
            /\ \A j \in 1..Len(persona.traits[i].evidence) :
                  Len(persona.traits[i].evidence[j].content)
                     <= ruleSnippetLength(persona.traits[i].trait) + 3

\* A returned persona with more than 2 qualifying items for a rule, a
\* snippet of 103 characters and a Thoughtful Communicator one of 153.
C7_Witness ==
    /\ outcome = "returned"
    /\ \E i \in 1..Len(persona.traits) :
          /\ qualifyingCount(persona.traits[i].trait) > 2
          /\ Len(persona.traits[i].evidence) = 2
          /\ Len(persona.traits[i].evidence[1].content) = 103
    /\ \E i \in 1..Len(persona.traits) :
          /\ persona.traits[i].trait = "Thoughtful Communicator"
          /\ Len(persona.traits[i].evidence[1].content) = 153

\* C9: generatePersona never fails on items with missing fields: it returns
\* a persona for every input.
C9_NeverThrows == pc = "done" => outcome = "returned"

(***************************************************************************)
(* The claims about the trait rules: presence, confidence, evidence.       *)
(***************************************************************************)
TraitLabels ==
    <<"Helpful and Supportive", "Technology Enthusiast",
      "Creative and Artistic", "Thoughtful Communicator">>

ruleMultiplier(label) ==
    CASE label = "Helpful and Supportive" -> 10
      [] label = "Technology Enthusiast" -> 15
      [] label = "Creative and Artistic" -> 20
      [] label = "Thoughtful Communicator" -> 8

\* The place of a label in the fixed order of the rules.
ruleRank(label) == CHOOSE k \in 1..Len(TraitLabels) : TraitLabels[k] = label

\* The items a rule looks at, the text it reads and whether an item
\* qualifies.
ruleItems(label) ==
    IF label = "Thoughtful Communicator" THEN comments ELSE allContent

ruleText(label, item) ==
    IF label = "Thoughtful Communicator" THEN bodyOrEmpty(item)
    ELSE titleOrBody(item)

qualifies(label, item) ==
    CASE label = "Helpful and Supportive" -> isHelpful(item)
      [] label = "Technology Enthusiast" -> isTech(item)
      [] label = "Creative and Artistic" -> isCreative(item)
      [] label = "Thoughtful Communicator" -> Len(bodyOrEmpty(item)) > 200

\* The positions of a rule's qualifying items, and the j-th of them.
qualifyingPositions(label) ==
    {i \in 1..Len(ruleItems(label)) : qualifies(label, ruleItems(label)[i])}

nthQualifying(label, j) ==
    ruleItems(label)[CHOOSE i \in qualifyingPositions(label) :
        Cardinality({k \in qualifyingPositions(label) : k < i}) = j - 1]

hasTrait(label) ==
    \E i \in 1..Len(persona.traits) : persona.traits[i].trait = label

traitOf(label) ==
    persona.traits[CHOOSE i \in 1..Len(persona.traits) :
                      persona.traits[i].trait = label]

isPrefix(a, b) == Len(a) <= Len(b) /\ SubSeq(b, 1, Len(a)) = a

C16_EllipsisOnlyWhenTruncated ==
    outcome = "returned" =>
        \A i \in 1..Len(persona.traits) :
            \A j \in 1..Len(persona.traits[i].evidence) :
                LET label == persona.traits[i].trait
                    text == ruleText(label, nthQualifying(label, j))
                    length == ruleSnippetLength(label)
                IN  persona.traits[i].evidence[j].content
                       = IF Len(text) <= length THEN text
                         ELSE SubSeq(text, 1, length) \o <<".", ".", ".">>

\* C17: the evidence of a detected trait is the first 2 qualifying items in
\* the order of the combined sequence (posts, then comments), for
\* Thoughtful Communicator the first 2 qualifying comments: entry j carries
\* the origin of the j-th qualifying item and the beginning of its text.
C17_EvidenceIsFirstTwo ==
    outcome = "returned" =>
        \A i \in 1..Len(persona.traits) :
            LET label == persona.traits[i].trait
                evidence == persona.traits[i].evidence
            IN  /\ Len(evidence)
                      = min(2, Cardinality(qualifyingPositions(label)))
                /\ \A j \in 1..Len(evidence) :
                      LET item == nthQualifying(label, j)
                          text == ruleText(label, item)
                          length == ruleSnippetLength(label)
                      IN  /\ evidence[j].subreddit = item.subreddit
                          /\ isPrefix(SubSeq(text, 1, min(Len(text), length)),
                                      evidence[j].content)

\* A returned persona with a trait whose first qualifying item is a post
\* and whose later qualifying items are comments that differ from it, more
\* than 2 in all, and with one item that is evidence of two traits.
C17_Witness ==
    /\ outcome = "returned"
    /\ \E i \in 1..Len(persona.traits) :
          LET label == persona.traits[i].trait
          IN  /\ label # "Thoughtful Communicator"
              /\ Cardinality(qualifyingPositions(label)) > 2
              /\ 1 \in qualifyingPositions(label)
              /\ posts # <<>>
              /\ \E k \in qualifyingPositions(label) :
                    /\ k > Len(posts)
                    /\ allContent[k].subreddit # allContent[1].subreddit
    /\ \E i, k \in 1..Len(persona.traits) :
          /\ i # k
          /\ persona.traits[i].evidence[1] = persona.traits[k].evidence[1]

\* C18: the trait list holds each label at most once and lists the traits
\* in the fixed order of the rules, whatever their confidence values.
C18_TraitsInRuleOrder ==
    outcome = "returned" =>
        \A i, j \in 1..Len(persona.traits) :
            i < j => ruleRank(persona.traits[i].trait)
                        < ruleRank(persona.traits[j].trait)

\* A returned persona with all four traits, a later one with a higher and
\* a later one with a lower confidence than an earlier one.
C18_Witness ==
    /\ outcome = "returned"
    /\ Len(persona.traits) = 4
    /\ \E i, j \in 1..4 :
          i < j /\ persona.traits[i].confidence < persona.traits[j].confidence
    /\ \E i, j \in 1..4 :
          i < j /\ persona.traits[i].confidence > persona.traits[j].confidence

(***************************************************************************)
(* The claims about the renderer and the POST /api/persona handler.        *)
(***************************************************************************)
did(r, step) == \E i \in 1..Len(req[r].steps) : req[r].steps[i] = step

\* C8: rendering is deterministic: formatPersonaAsText called twice on the
\* same PersonaResult, at any two moments, yields identical text.
C8_RenderingDeterministic ==
    \A r1, r2 \in Requests :
        ( /\ did(r1, "render")
          /\ did(r2, "render")
          /\ req[r1].persona = req[r2].persona )
        => req[r1].personaText = req[r2].personaText

\* The profile reference is absent or does not match the username pattern.
invalidReference(url) ==
    \/ url.type # "string"
    \/ usernameTable[url.value] = None

\* C10: a request whose profile reference is absent or does not match
\* reddit.com/(u|user)/<name> is answered with a 400 error, and no fetch,
\* analysis, render or file write is ever performed for it.
C10_InvalidReferenceRejected ==
    \A r \in Requests :
        (req[r].pc # "new" /\ invalidReference(req[r].redditUrl)) =>
            /\ req[r].pc = "done"
            /\ req[r].response.status = 400
            /\ ~did(r, "fetch")
            /\ ~did(r, "analyse")
            /\ ~did(r, "render")
            /\ ~did(r, "store")

(***************************************************************************)
(* The claims about failures, the order of the steps and the stored file.  *)
(***************************************************************************)
\* C11: if either upstream fetch fails for a request, generatePersona is
\* never run for it, no report is rendered or written, no success response
\* is sent, and the request ends with a failure response that carries the
\* upstream cause's message.
C11_FetchFailureIsFatal ==
    \A r \in Requests :
        req[r].fetchError # None =>
            /\ req[r].pc = "done"
            /\ ~did(r, "analyse")
            /\ ~did(r, "render")
            /\ ~did(r, "store")
            /\ req[r].persona = noPersona
            /\ req[r].personaText = <<>>
            /\ ~req[r].response.success
            /\ req[r].response.status >= 400
            /\ \E i \in 1..Len(req[r].response.error) :
                  req[r].response.error[i] = req[r].fetchError[1]

\* A request whose second fetch failed after its posts had arrived, beside
\* a request that was answered with success.
C11_Witness ==
    \E r, q \in Requests :
        /\ req[r].fetchError # None
        /\ req[r].posts # <<>>
        /\ req[q].response.success

\* The place of a step in the order fetch, analyse, render, store, respond.
stepRank(step) ==
    CASE step = "fetch" -> 1
      [] step = "analyse" -> 2
      [] step = "render" -> 3
      [] step = "store" -> 4
      [] step = "respond" -> 5

\* C12: within one request the steps occur in the order fetch, analyse,
\* render, store, respond; a success response is sent only after the file
\* was written; a download issued after that response finds the file and
\* returns the text rendered for the request.
C12_StoredBeforeAnswered ==
    /\ \A r \in Requests :
          /\ \A i, j \in 1..Len(req[r].steps) :
                i < j => stepRank(req[r].steps[i]) < stepRank(req[r].steps[j])
          /\ req[r].response.success =>
                did(r, "store") /\ isStored(req[r].response.filename)
    /\ (download.pc = "done" /\ download.of # 0) =>
          /\ download.readError # Some(S_ENOENT)
          /\ download.readError = None =>
                /\ download.status = 200
                /\ download.content = Some(req[download.of].personaText)

\* C13: storage failures are never silently swallowed: when mkdir or
\* writeFile fails, the request gets a failure response and never a success
\* response; when the file cannot be read at download time, the download
\* gets a not-found response and no file content.
C13_StorageFailuresSurface ==
    /\ \A r \in Requests :
          req[r].fsError # None =>
              /\ req[r].pc = "done"
              /\ ~req[r].response.success
              /\ req[r].response.status = 500
              /\ req[r].response.error = req[r].fsError
              /\ req[r].response.filename = <<>>
    /\ download.readError # None =>
          /\ download.pc = "done"
          /\ download.status = 404
          /\ download.error = <<"File not found">>
          /\ download.content = None

\* A request whose writeFile failed, and a download of a name that is not
\* stored, answered with 404.
C13_Witness ==
    /\ \E r \in Requests :
          /\ req[r].fsError # None
          /\ req[r].fsError[1] \in WriteErrors
    /\ download.readError = Some(S_ENOENT)
    /\ download.status = 404

\* C14: under every interleaving of concurrent requests, two for the same
\* username included, each success response carries the persona computed
\* from the request's own fetched data, and the file its download reference
\* names holds the report rendered for that same request.
C14_RequestsIndependent ==
    \A r \in Requests :
        (req[r].pc = "done" /\ req[r].response.success) =>
            /\ req[r].response.persona
                  \in generatePersona(req[r].username, req[r].posts, req[r].comments)
            /\ \E f \in files :
                  /\ f.name = req[r].response.filename
                  /\ f.content = req[r].personaText

=============================================================================
